---- MODULE Spec2Model ----
(***************************************************************************)
(* Model of the robust Mailchimp CSV generator                             *)
(* (src/mailchimp_csv_generator_robust.py): get_all_campaigns,             *)
(* get_list_name, get_campaign_report, save_progress and generate_csv,     *)
(* run once from main, which catches KeyboardInterrupt.                    *)
(*                                                                         *)
(* The program is sequential; pc is its position.  It is cut into steps    *)
(* at every network request and at every write to the output file, which   *)
(* are the points where the remote side chooses an outcome and where an    *)
(* external interrupt can find the file in a different condition.          *)
(***************************************************************************)
EXTENDS Integers, Sequences, FiniteSets, TLC

\* ------------------------------------------------------------------ bounds
MaxCampaigns == 2       \* size of the remote campaign set, 0..MaxCampaigns
MaxCount == 2           \* the page size: stands for count = 1000
MaxInterval == 2        \* save_interval ranges over 1..MaxInterval
MaxListTimeouts == 2    \* cap on the timeouts of the listing request in a run

\* ------------------------------------------------------- program constants
Attempts == 3           \* for attempt in range(3)
RetryPause == 2         \* time.sleep(2)
DefaultInterval == 50   \* save_interval = 50

\* ------------------------------------------------------------- remote data
NoList == "none"        \* campaign without recipients.list_id
ListIds == {"L1", "L2"}

\* The audience name the remote API holds for a list id.
RemoteListName(l) == IF l = "L1" THEN "News" ELSE "Promo"

\* recipients of a campaign: list id and whether segment_opts is set
Recipients ==
    { [list_id |-> "L1", segmented |-> FALSE],
      [list_id |-> "L1", segmented |-> TRUE],
      [list_id |-> "L2", segmented |-> FALSE],
      [list_id |-> NoList, segmented |-> FALSE] }

\* Campaign j of the remote set (sorted by send time) has id j.
Campaign(j, r) == [id |-> j, list_id |-> r.list_id, segmented |-> r.segmented]

RemoteSets ==
    UNION { { [j \in 1..k |-> Campaign(j, f[j])] : f \in [1..k -> Recipients] }
            : k \in 0..MaxCampaigns }

\* A report is None or the JSON object of /reports/{id}.  Rates are kept in
\* units of 1/10000 (open_rate 0.5 is 5000), so that rate * 100 has exactly
\* two decimals.
NoReport == [kind |-> "none"]

RemoteReport(id) ==
    [kind |-> "report",
     emails_sent |-> 100 * id,
     unique_opens |-> 50 * id,
     open_rate |-> 5000 + id,
     unique_clicks |-> 10 * id,
     click_rate |-> 1000 + id,
     hard_bounces |-> id,
     soft_bounces |-> 2 * id,
     unsubscribed |-> 3 * id]

\* ------------------------------------------------------------------- state
VARIABLES
    remote,         \* the remote campaign set, in listing order
                    \* (of the generator's run, or of the downloader's)
    count,          \* page size of get_all_campaigns
    save_interval,  \* generate_csv's save_interval
    pc,             \* position of the run (generator, downloader or
                    \* sanitize_filename on its own)
    offset,         \* get_all_campaigns: offset
    campaigns,      \* get_all_campaigns: campaigns, then generate_csv's list
    pageRequests,   \* number of listing requests issued
    listTimeouts,   \* number of listing requests that timed out
    i,              \* generate_csv: index of the current campaign (from 1)
    list_cache,     \* generate_csv: list_cache, list id -> audience name
    audience,       \* generate_csv: audience of the current campaign
    csv_data,       \* generate_csv: csv_data
    file,           \* the output file as it is on disk
    call,           \* the current (or last) get_list_name/get_campaign_report call
    listRequests,   \* per list id: network requests made to /lists/{id}
    listLookups,    \* per list id: calls of get_list_name
    saving,         \* which save_progress call is running: "none", "checkpoint", "final"
    flushes,        \* number of save_progress calls that returned
    listEnd,        \* how get_all_campaigns left its loop: "running", "exhausted", "failed"
    raw_name,       \* sanitize_filename: the text it is given first
    safe_name,      \* sanitize_filename: what it returned last
    applied,        \* sanitize_filename: how often it has been applied
    directory,      \* the newsletters directory: the files, each with the campaign it holds
    successful,     \* download_all_newsletters: successful
    failed,         \* download_all_newsletters: failed
    saved,          \* ids of the campaigns create_markdown_file has written
    found           \* find_local_file: the campaign it was last called for and what it returned

\* state of the downloader and of the file naming
downloaderVars == << raw_name, safe_name, applied, directory, successful, failed, saved, found >>

vars == << remote, count, save_interval, pc, offset, campaigns, pageRequests,
           listTimeouts, i, list_cache, audience, csv_data, file, call,
           listRequests, listLookups, saving, flushes, listEnd, downloaderVars >>

\* ------------------------------------------------------------------ output
\* Text is a sequence of characters.
DigitChars == << "0", "1", "2", "3", "4", "5", "6", "7", "8", "9" >>

DigitChar(d) == DigitChars[d + 1]

\* the decimal digits of the natural number n
RECURSIVE Decimal(_)
Decimal(n) == IF n < 10 THEN << DigitChar(n) >>
              ELSE Decimal(n \div 10) \o << DigitChar(n % 10) >>

\* f"{rate:.2f}" of rate = r/100 with r a natural number
Format2f(r) ==
    Decimal(r \div 100) \o << "." >> \o << DigitChar((r % 100) \div 10), DigitChar(r % 10) >>

\* What an earlier run left in the output file.
OldRow == [CampaignID |-> 0, Audience |-> "Old", EmailsSent |-> 7,
           UniqueOpens |-> 7, OpenRate |-> Format2f(700), UniqueClicks |-> 7,
           ClickRate |-> Format2f(700), HardBounces |-> 7, SoftBounces |-> 7,
           Unsubscribes |-> 7]

OldFile == [header |-> TRUE, rows |-> << OldRow >>]

\* mutant of Truncated: the file is opened for appending
OpenedForAppend == file

\* open(output_path, 'w'): the file exists and is empty
Truncated == [header |-> FALSE, rows |-> << >>]

\* no get_list_name or get_campaign_report call is running or just returned
NoCall == [kind |-> "none", outcomes |-> << >>, slept |-> 0, ended |-> TRUE]

\* ---------------------------------------------------------- initial state
\* No text is being sanitized and nothing has been downloaded.
NoFind == [id |-> 0, path |-> << >>]

NoDownload ==
    /\ raw_name = << >>
    /\ safe_name = << >>
    /\ applied = 0
    /\ directory = {}
    /\ successful = 0
    /\ failed = 0
    /\ saved = {}
    /\ found = NoFind

\* The state at the start of a run whose page size is one of counts and
\* whose save_interval is one of intervals.
StartWith(counts, intervals) ==
    /\ remote \in RemoteSets
    /\ count \in counts
    /\ save_interval \in intervals
    /\ pc = "listing"
    /\ offset = 0
    /\ campaigns = << >>
    /\ pageRequests = 0
    /\ listTimeouts = 0
    /\ i = 0
    /\ list_cache = [l \in {} |-> ""]
    /\ audience = ""
    /\ csv_data = << >>
    /\ file = OldFile
    /\ call = NoCall
    /\ listRequests = [l \in ListIds |-> 0]
    /\ listLookups = [l \in ListIds |-> 0]
    /\ saving = "none"
    /\ flushes = 0
    /\ listEnd = "running"
    /\ NoDownload

\* generate_csv called with a positive save_interval
Start(counts) == StartWith(counts, 1..MaxInterval)

\* A run of generate_csv: the page size is the one constant of
\* get_all_campaigns.
Init == Start({MaxCount})

\* What the user may type at "Save progress every N campaigns": nothing, a
\* number, or something that is no number.
PromptInputs ==
    { Decimal(n) : n \in 0..MaxInterval } \cup { << >>, << "x" >>, << "-", "1" >> }

\* str.isdigit(): not empty and every character a digit
IsDigit(text) ==
    /\ text # << >>
    /\ \A j \in 1..Len(text) : \E d \in 0..9 : text[j] = DigitChar(d)

\* int(text) of a text of digits
RECURSIVE IntOf(_)
IntOf(text) ==
    IF text = << >> THEN 0
    ELSE 10 * IntOf(SubSeq(text, 1, Len(text) - 1))
         + (CHOOSE d \in 0..9 : DigitChar(d) = text[Len(text)])

\* main: "if save_interval_input and save_interval_input.isdigit()"
PromptInterval(input) ==
    IF input # << >> /\ IsDigit(input) THEN IntOf(input) ELSE DefaultInterval

\* A run of main: save_interval is what main makes of the prompt's input.
InitMain == StartWith({MaxCount}, { PromptInterval(input) : input \in PromptInputs })

\* get_all_campaigns for every page size.
InitPages == Start(1..MaxCount)

\* ------------------------------------------------------- get_all_campaigns
Min(a, b) == IF a < b THEN a ELSE b

\* The page the remote API returns for offset off and the page size count.
Page(off) == SubSeq(remote, off + 1, Min(off + count, Len(remote)))

\* campaigns.extend(batch_campaigns)
Extend(camps, batch) == camps \o batch

\* mutant of NextOffset: the next page starts one campaign too far
NextOffsetSkips(off) == off + count + 1

\* mutant of NextOffset: the next page starts at the last campaign of this one
NextOffsetOverlaps(off) == off + count - 1

\* offset += count
NextOffset(off) == off + count

\* mutant of OffsetAfterTimeout: the timeout falls through to offset += count
OffsetAdvancesOnTimeout(off) == off + count

\* the offset the loop goes on with after a timeout (continue)
OffsetAfterTimeout(off) == off

\* the campaigns the loop goes on with after a timeout
CampaignsAfterTimeout(camps) == camps

\* mutant of CampaignsAfterFailure: a failure returns an empty list
NothingAfterFailure(camps) == << >>

\* what get_all_campaigns returns when a page fails with a non-200 status or
\* a non-timeout exception: the break leaves campaigns as accumulated
CampaignsAfterFailure(camps) == camps

\* get_all_campaigns leaves its loop and returns camps to generate_csv
AfterListing(camps) ==
    /\ campaigns' = camps
    /\ pc' = "listed"

\* response.status_code == 200
ListPage200 ==
    /\ pc = "listing"
    /\ pageRequests' = pageRequests + 1
    /\ LET batch == Page(offset) IN
          IF batch = << >>
             THEN /\ AfterListing(campaigns)
                  /\ offset' = offset /\ listEnd' = "exhausted"
             ELSE IF Len(batch) < count
                     THEN /\ AfterListing(Extend(campaigns, batch))
                          /\ offset' = offset /\ listEnd' = "exhausted"
                     ELSE /\ campaigns' = Extend(campaigns, batch)
                          /\ offset' = NextOffset(offset)
                          /\ pc' = pc /\ listEnd' = listEnd
    /\ UNCHANGED << downloaderVars, remote, count, save_interval, listTimeouts, i, list_cache,
                    audience, csv_data, file, call, listRequests, listLookups,
                    saving, flushes >>

\* response.status_code != 200: break
ListPageStatus ==
    /\ pc = "listing"
    /\ pageRequests' = pageRequests + 1
    /\ AfterListing(CampaignsAfterFailure(campaigns))
    /\ listEnd' = "failed"
    /\ UNCHANGED << downloaderVars, remote, count, save_interval, offset, listTimeouts, i,
                    list_cache, audience, csv_data, file, call, listRequests,
                    listLookups, saving, flushes >>

\* except requests.exceptions.Timeout: sleep, continue
ListPageTimeout ==
    /\ pc = "listing"
    /\ listTimeouts < MaxListTimeouts
    /\ pageRequests' = pageRequests + 1
    /\ listTimeouts' = listTimeouts + 1
    /\ offset' = OffsetAfterTimeout(offset)
    /\ campaigns' = CampaignsAfterTimeout(campaigns)
    /\ UNCHANGED << downloaderVars, remote, count, save_interval, pc, i, list_cache, audience,
                    csv_data, file, call, listRequests, listLookups, saving,
                    flushes, listEnd >>

\* except Exception: break
ListPageException ==
    /\ pc = "listing"
    /\ pageRequests' = pageRequests + 1
    /\ AfterListing(CampaignsAfterFailure(campaigns))
    /\ listEnd' = "failed"
    /\ UNCHANGED << downloaderVars, remote, count, save_interval, offset, listTimeouts, i,
                    list_cache, audience, csv_data, file, call, listRequests,
                    listLookups, saving, flushes >>

\* ------------------------------------------- get_list_name, get_campaign_report
NewCall(kind) == [kind |-> kind, outcomes |-> << >>, slept |-> 0, ended |-> FALSE]

\* The call of the given kind that is running, or a fresh one when the
\* function is entered.
CurrentCall(kind) ==
    IF call.kind = kind /\ ~call.ended THEN call ELSE NewCall(kind)

\* mutant of RetryAfterTimeout: the third timeout is retried as well
RetryAfterEveryTimeout(n) == n < Attempts

\* except Timeout: "if attempt < 2" goes round the loop again, attempt being
\* the 0-based index of the attempt that timed out, n the attempts made so far.
RetryAfterTimeout(n) == n < Attempts - 1

\* An attempt that ends the call: return
CallReturns(c, outcome) ==
    [c EXCEPT !.outcomes = Append(@, outcome), !.ended = TRUE]

\* mutant of CallRetries: the attempt is not counted
CallRetriesUncounted(c) == [c EXCEPT !.slept = @ + RetryPause]

\* An attempt that timed out and is followed by another: time.sleep(2)
CallRetries(c) ==
    [c EXCEPT !.outcomes = Append(@, "timeout"), !.slept = @ + RetryPause]

\* ------------------------------------------------------------ generate_csv
\* "if not campaigns: return": nothing is written when no campaign was fetched
NothingToDo(camps) == camps = << >>

\* campaigns = self.get_all_campaigns(), then return at once when there are
\* none, otherwise enter the loop with i = 1.  The frame of get_all_campaigns
\* and the log of its requests are dropped here.
CheckCampaigns ==
    /\ pc = "listed"
    /\ IF NothingToDo(campaigns)
          THEN pc' = "done" /\ i' = i
          ELSE pc' = "item" /\ i' = 1
    /\ offset' = 0
    /\ pageRequests' = 0
    /\ listTimeouts' = 0
    /\ listEnd' = "returned"
    /\ UNCHANGED << downloaderVars, remote, count, save_interval, campaigns, list_cache, audience,
                    csv_data, file, call, listRequests, listLookups, saving,
                    flushes >>

ThisCampaign == campaigns[i]

\* if segment_opts: audience += " (Segmented)"
WithSegment(name, c) == IF c.segmented THEN name \o " (Segmented)" ELSE name

\* list_cache[list_id] = ...
CachePut(cache, l, name) == [x \in DOMAIN cache \cup {l} |-> IF x = l THEN name ELSE cache[x]]

\* mutant of NeedsLookup: a failed lookup is not taken from the cache
NeedsLookupAfterFailure(cache, l) == l \notin DOMAIN cache \/ cache[l] = "Unknown"

\* "if list_id not in list_cache": the lookup is needed
NeedsLookup(cache, l) == l \notin DOMAIN cache

\* Head of the loop body up to the audience: a cached or missing list id
\* needs no call.
StartItem ==
    /\ pc = "item"
    /\ LET c == ThisCampaign IN
          IF c.list_id # NoList
             THEN IF NeedsLookup(list_cache, c.list_id)
                     THEN /\ pc' = "list_name"
                          /\ listLookups' = [listLookups EXCEPT ![c.list_id] = @ + 1]
                          /\ audience' = audience
                     ELSE /\ pc' = "report"
                          /\ audience' = WithSegment(list_cache[c.list_id], c)
                          /\ listLookups' = listLookups
             ELSE /\ pc' = "report"
                  /\ audience' = WithSegment("Unknown", c)
                  /\ listLookups' = listLookups
    /\ UNCHANGED << downloaderVars, remote, count, save_interval, offset, campaigns, pageRequests,
                    listTimeouts, i, list_cache, csv_data, file, call,
                    listRequests, saving, flushes, listEnd >>

\* mutant of ListNameReturn: the cache gets the name with its suffix
ListNameReturnCachesSuffix(name, outcome) ==
    LET c == ThisCampaign IN
    /\ list_cache' = CachePut(list_cache, c.list_id, WithSegment(name, c))
    /\ audience' = WithSegment(name, c)
    /\ call' = CallReturns(CurrentCall("list"), outcome)
    /\ listRequests' = [listRequests EXCEPT ![c.list_id] = @ + 1]
    /\ pc' = "report"
    /\ UNCHANGED << downloaderVars, remote, count, save_interval, offset, campaigns, pageRequests,
                    listTimeouts, i, csv_data, file, listLookups, saving,
                    flushes, listEnd >>

\* get_list_name returned name: store it and go on to the report
ListNameReturn(name, outcome) ==
    LET c == ThisCampaign IN
    /\ list_cache' = CachePut(list_cache, c.list_id, name)
    /\ audience' = WithSegment(name, c)
    /\ call' = CallReturns(CurrentCall("list"), outcome)
    /\ listRequests' = [listRequests EXCEPT ![c.list_id] = @ + 1]
    /\ pc' = "report"
    /\ UNCHANGED << downloaderVars, remote, count, save_interval, offset, campaigns, pageRequests,
                    listTimeouts, i, csv_data, file, listLookups, saving,
                    flushes, listEnd >>

\* status 200: response.json().get('name', 'Unknown')
ListName200 ==
    /\ pc = "list_name"
    /\ ListNameReturn(RemoteListName(ThisCampaign.list_id), "200")

\* any other status: 'Unknown'
ListNameStatus ==
    /\ pc = "list_name"
    /\ ListNameReturn("Unknown", "status")

\* except Exception: 'Unknown'
ListNameException ==
    /\ pc = "list_name"
    /\ ListNameReturn("Unknown", "exception")

\* except Timeout: sleep and retry, or 'Unknown' on the last attempt
ListNameTimeout ==
    /\ pc = "list_name"
    /\ LET cur == CurrentCall("list") IN
          IF RetryAfterTimeout(Len(cur.outcomes))
             THEN /\ call' = CallRetries(cur)
                  /\ listRequests' = [listRequests EXCEPT ![ThisCampaign.list_id] = @ + 1]
                  /\ UNCHANGED << downloaderVars, remote, count, save_interval, pc,
                                  offset, campaigns,
                                  pageRequests, listTimeouts, i, list_cache, audience,
                                  csv_data, file, listLookups, saving, flushes,
                                  listEnd >>
             ELSE ListNameReturn("Unknown", "timeout")

\* the metric fields of a row from a report (lines 277-291, 310-317)
MetricsOf(rep) ==
    [EmailsSent |-> rep.emails_sent,
     UniqueOpens |-> rep.unique_opens,
     OpenRate |-> Format2f(rep.open_rate),
     UniqueClicks |-> rep.unique_clicks,
     ClickRate |-> Format2f(rep.click_rate),
     HardBounces |-> rep.hard_bounces,
     SoftBounces |-> rep.soft_bounces,
     Unsubscribes |-> rep.unsubscribed]

\* the metric fields of a row without a report: every variable is 0
ZeroMetrics ==
    [EmailsSent |-> 0,
     UniqueOpens |-> 0,
     OpenRate |-> Format2f(0),
     UniqueClicks |-> 0,
     ClickRate |-> Format2f(0),
     HardBounces |-> 0,
     SoftBounces |-> 0,
     Unsubscribes |-> 0]

\* mutant of ReportMetrics: without a report the variables keep the values
\* of the campaign before
ReportMetricsStale(rep) ==
    IF rep.kind = "report" THEN MetricsOf(rep)
    ELSE IF csv_data = << >> THEN ZeroMetrics
    ELSE LET last == csv_data[Len(csv_data)] IN
         [f \in DOMAIN ZeroMetrics |-> last[f]]

\* "if report: ... else: ...": the metrics of a campaign's row
ReportMetrics(rep) ==
    IF rep.kind = "report" THEN MetricsOf(rep) ELSE ZeroMetrics

\* The row of campaign c with audience aud and report rep.
MakeRow(c, aud, rep) ==
    [CampaignID |-> c.id, Audience |-> aud] @@ ReportMetrics(rep)

\* mutant of AppendRow: a campaign without metrics gets no row
AppendRowWithMetrics(data, row) == IF row.EmailsSent = 0 THEN data ELSE Append(data, row)

\* csv_data.append(row)
AppendRow(data, row) == Append(data, row)

\* get_campaign_report returned rep: build the row and append it
ReportReturn(rep, outcome) ==
    /\ call' = CallReturns(CurrentCall("report"), outcome)
    /\ csv_data' = AppendRow(csv_data, MakeRow(ThisCampaign, audience, rep))
    /\ pc' = "appended"
    /\ UNCHANGED << downloaderVars, remote, count, save_interval, offset, campaigns, pageRequests,
                    listTimeouts, i, list_cache, audience, file, listRequests,
                    listLookups, saving, flushes, listEnd >>

\* status 200: response.json()
Report200 ==
    /\ pc = "report"
    /\ ReportReturn(RemoteReport(ThisCampaign.id), "200")

\* status 404: None
Report404 ==
    /\ pc = "report"
    /\ ReportReturn(NoReport, "404")

\* any other status: None
ReportStatus ==
    /\ pc = "report"
    /\ ReportReturn(NoReport, "status")

\* except Exception: None
ReportException ==
    /\ pc = "report"
    /\ ReportReturn(NoReport, "exception")

\* except Timeout: sleep and retry, or None on the last attempt
ReportTimeout ==
    /\ pc = "report"
    /\ LET cur == CurrentCall("report") IN
          IF RetryAfterTimeout(Len(cur.outcomes))
             THEN /\ call' = CallRetries(cur)
                  /\ UNCHANGED << downloaderVars, remote, count, save_interval, pc,
                                  offset, campaigns,
                                  pageRequests, listTimeouts, i, list_cache, audience,
                                  csv_data, file, listRequests, listLookups, saving,
                                  flushes, listEnd >>
             ELSE ReportReturn(NoReport, "timeout")

\* mutant of CheckpointDue: the test is made on the index counted from 0
CheckpointDueFromZero(n, interval) == (n - 1) % interval = 0

\* "if i % save_interval == 0"
CheckpointDue(n, interval) == n % interval = 0

\* mutant of NextItem: the loop ends without the final save
NextItemNoFinalSave ==
    IF i < Len(campaigns)
       THEN i' = i + 1 /\ pc' = "item" /\ saving' = "none"
       ELSE i' = i /\ pc' = "done" /\ saving' = "none"

\* The for loop goes on to the next campaign, or ends and the final save starts.
NextItem ==
    IF i < Len(campaigns)
       THEN i' = i + 1 /\ pc' = "item" /\ saving' = "none"
       ELSE i' = i /\ pc' = "save_open" /\ saving' = "final"

\* After the append: save progress when due, otherwise go on.
\* "i % save_interval" with save_interval = 0 raises ZeroDivisionError, which
\* leaves generate_csv and is caught by main's "except Exception".
CheckpointTest ==
    /\ pc = "appended"
    /\ IF save_interval = 0
          THEN i' = i /\ pc' = "error" /\ saving' = saving
          ELSE IF CheckpointDue(i, save_interval)
                  THEN i' = i /\ pc' = "save_open" /\ saving' = "checkpoint"
                  ELSE NextItem
    /\ call' = NoCall
    /\ UNCHANGED << downloaderVars, remote, count, save_interval, offset, campaigns, pageRequests,
                    listTimeouts, list_cache, audience, csv_data, file,
                    listRequests, listLookups, flushes, listEnd >>

\* ----------------------------------------------------------- save_progress
\* open(output_path, 'w', ...)
SaveOpen ==
    /\ pc = "save_open"
    /\ file' = Truncated
    /\ pc' = "save_header"
    /\ UNCHANGED << downloaderVars, remote, count, save_interval, offset, campaigns, pageRequests,
                    listTimeouts, i, list_cache, audience, csv_data, call,
                    listRequests, listLookups, saving, flushes, listEnd >>

\* open(output_path, 'w') raises (the file cannot be written): the exception
\* leaves generate_csv and is caught by main's "except Exception".
SaveOpenFails ==
    /\ pc = "save_open"
    /\ pc' = "error"
    /\ UNCHANGED << downloaderVars, remote, count, save_interval, offset, campaigns, pageRequests,
                    listTimeouts, i, list_cache, audience, csv_data, file, call,
                    listRequests, listLookups, saving, flushes, listEnd >>

\* writer.writeheader()
SaveHeader ==
    /\ pc = "save_header"
    /\ file' = [file EXCEPT !.header = TRUE]
    /\ pc' = "save_rows"
    /\ UNCHANGED << downloaderVars, remote, count, save_interval, offset, campaigns, pageRequests,
                    listTimeouts, i, list_cache, audience, csv_data, call,
                    listRequests, listLookups, saving, flushes, listEnd >>

\* writer.writerows(csv_data), one row
SaveRow ==
    /\ pc = "save_rows"
    /\ Len(file.rows) < Len(csv_data)
    /\ file' = [file EXCEPT !.rows = Append(@, csv_data[Len(file.rows) + 1])]
    /\ UNCHANGED << downloaderVars, remote, count, save_interval, pc, offset, campaigns,
                    pageRequests, listTimeouts, i, list_cache, audience, csv_data,
                    call, listRequests, listLookups, saving, flushes, listEnd >>

\* All rows written: the file is closed and save_progress returns, to the
\* loop (checkpoint) or to the end of generate_csv (final save).
SaveReturn ==
    /\ pc = "save_rows"
    /\ Len(file.rows) = Len(csv_data)
    /\ flushes' = flushes + 1
    /\ IF saving = "checkpoint"
          THEN NextItem
          ELSE i' = i /\ pc' = "done" /\ saving' = "none"
    /\ UNCHANGED << downloaderVars, remote, count, save_interval, offset, campaigns, pageRequests,
                    listTimeouts, list_cache, audience, csv_data, file, call,
                    listRequests, listLookups, listEnd >>

\* -------------------------------------------------------------------- main
\* except KeyboardInterrupt: the run stops where it is; a file being written
\* is closed with what was written so far.
KeyboardInterrupt ==
    /\ pc \notin {"done", "interrupted", "error"}
    /\ pc' = "interrupted"
    /\ UNCHANGED << downloaderVars, remote, count, save_interval, offset, campaigns, pageRequests,
                    listTimeouts, i, list_cache, audience, csv_data, file, call,
                    listRequests, listLookups, saving, flushes, listEnd >>

\* a step of the program
ProgramNext ==
    \/ ListPage200 \/ ListPageStatus \/ ListPageTimeout \/ ListPageException
    \/ CheckCampaigns \/ StartItem
    \/ ListName200 \/ ListNameStatus \/ ListNameException \/ ListNameTimeout
    \/ Report200 \/ Report404 \/ ReportStatus \/ ReportException \/ ReportTimeout
    \/ CheckpointTest
    \/ SaveOpen \/ SaveOpenFails \/ SaveHeader \/ SaveRow \/ SaveReturn

Next == ProgramNext \/ KeyboardInterrupt

Spec == Init /\ [][Next]_vars

\* main, from the prompt for the save interval on
SpecMain == InitMain /\ [][Next]_vars

\* A run that is not interrupted: the program takes its next step whenever
\* it has one (every request returns or times out, every write returns).
SpecLive == Init /\ [][ProgramNext]_vars /\ WF_vars(ProgramNext)

\* get_all_campaigns on its own, for every page size
NextPages ==
    \/ ListPage200 \/ ListPageStatus \/ ListPageTimeout \/ ListPageException

SpecPages == InitPages /\ [][NextPages]_vars

\* ======================================================================
\* File names: sanitize_filename
\* ======================================================================
MaxTextLen == 4         \* longest text given to sanitize_filename
MaxNameLen == 3         \* stands for the 200 of "if len(filename) > 200"

\* generate_csv is not running.
NoGenerate ==
    /\ save_interval = 1
    /\ pageRequests = 0
    /\ listTimeouts = 0
    /\ list_cache = [l \in {} |-> ""]
    /\ audience = ""
    /\ csv_data = << >>
    /\ file = OldFile
    /\ call = NoCall
    /\ listRequests = [l \in ListIds |-> 0]
    /\ listLookups = [l \in ListIds |-> 0]
    /\ saving = "none"
    /\ flushes = 0
    /\ listEnd = "running"

\* Neither program is running.
NoRun ==
    /\ NoGenerate
    /\ remote = << >>
    /\ count = MaxCount
    /\ offset = 0
    /\ campaigns = << >>
    /\ i = 0

\* the characters of the class [<>:"/\\|?*]
Forbidden == {"<", ">", ":", "\"", "/", "\\", "|", "?", "*"}

\* re.sub(r'[<>:"/\\|?*]', '', filename)
RemoveForbidden(t) == SelectSeq(t, LAMBDA ch : ch \notin Forbidden)

\* filename.replace(' ', '_')
ReplaceSpaces(t) == [j \in 1..Len(t) |-> IF t[j] = " " THEN "_" ELSE t[j]]

\* if len(filename) > 200: filename = filename[:200]
Cut(t) == IF Len(t) > MaxNameLen THEN SubSeq(t, 1, MaxNameLen) ELSE t

\* mutant of sanitize_filename: the text is cut before it is cleaned
SanitizeCutsFirst(t) == ReplaceSpaces(RemoveForbidden(Cut(t)))

sanitize_filename(t) == Cut(ReplaceSpaces(RemoveForbidden(t)))

\* The texts sanitize_filename is tried on: every text of up to MaxTextLen
\* characters over a few characters of each kind, and each forbidden
\* character on its own.
NameChars == {"a", "_", " ", "/", "?"}

Texts(chars, n) == UNION { [1..m -> chars] : m \in 0..n }

NameInputs == Texts(NameChars, MaxTextLen) \cup { << ch >> : ch \in Forbidden }

InitNames ==
    /\ NoRun
    /\ pc = "sanitize"
    /\ raw_name \in NameInputs
    /\ safe_name = << >>
    /\ applied = 0
    /\ directory = {}
    /\ successful = 0
    /\ failed = 0
    /\ saved = {}
    /\ found = NoFind

\* sanitize_filename applied to the text, and then to its own result
SanitizeFilename ==
    /\ pc = "sanitize"
    /\ applied < 2
    /\ safe_name' = sanitize_filename(IF applied = 0 THEN raw_name ELSE safe_name)
    /\ applied' = applied + 1
    /\ UNCHANGED << remote, count, save_interval, pc, offset, campaigns,
                    pageRequests, listTimeouts, i, list_cache, audience, csv_data,
                    file, call, listRequests, listLookups, saving, flushes, listEnd,
                    raw_name, directory, successful, failed, saved, found >>

NextNames == SanitizeFilename

SpecNames == InitNames /\ [][NextNames]_vars

\* ======================================================================
\* File names: create_markdown_file and find_local_file
\* ======================================================================
MaxNewsletters == 2     \* most campaigns the downloader's remote holds
DatePrefix == 10        \* send_time[:10]

\* send_time values: missing (''), in the format of the API, parseable but
\* not zero-padded, not parseable and at least 10 characters long, not
\* parseable and shorter.
NoSendTime == << >>
IsoTime == << "2", "0", "2", "4", "-", "0", "1", "-", "0", "5", "T", "1", "0", ":", "0", "0", ":", "0", "0", "+", "0", "0", ":", "0", "0" >>
UnpaddedTime == << "2", "0", "2", "4", "-", "1", "-", "5", "T", "1", "0", ":", "0", "0", ":", "0", "0", "+", "0", "0", ":", "0", "0" >>
PlainTime == << "2", "0", "2", "4", "-", "0", "1", "-", "0", "5", " ", "1", "0", ":", "0", "0" >>
ShortTime == << "s", "o", "o", "n" >>

SendTimes == {NoSendTime, IsoTime, UnpaddedTime, PlainTime, ShortTime}

\* subject lines
SubjectLines == { << "H", "i" >>, << "H", "i", "?" >> }

\* campaign j of the downloader's remote: with or without a subject_line
Newsletter(j, send_time, has_subject, subject_line) ==
    [id |-> j, send_time |-> send_time, has_subject |-> has_subject,
     subject_line |-> subject_line]

NewsletterKinds ==
    { << t, TRUE, sl >> : t \in SendTimes, sl \in SubjectLines }
        \cup { << t, FALSE, << >> >> : t \in SendTimes }

NewsletterSets ==
    UNION { { [j \in 1..k |-> Newsletter(j, f[j][1], f[j][2], f[j][3])] :
                f \in [1..k -> NewsletterKinds] } : k \in 0..MaxNewsletters }

\* 'No Subject', 'unknown', '.md', "File not found"
NoSubject == << "N", "o", " ", "S", "u", "b", "j", "e", "c", "t" >>
Unknown == << "u", "n", "k", "n", "o", "w", "n" >>
Extension == << ".", "m", "d" >>
FileNotFound == << "F", "i", "l", "e", " ", "n", "o", "t", " ", "f", "o", "u", "n", "d" >>

\* ------------------------------------------------ datetime.strptime, strftime
\* index of the first ch in t at or after from, 0 when there is none
FirstIndex(t, ch, from) ==
    IF \E j \in from..Len(t) : t[j] = ch
       THEN CHOOSE j \in from..Len(t) :
                t[j] = ch /\ \A k \in from..(j - 1) : t[k] # ch
       ELSE 0

\* a field of one or two digits with a value from lo to hi
IsField(t, lo, hi) == Len(t) \in 1..2 /\ IsDigit(t) /\ IntOf(t) \in lo..hi

\* %z: Z, +hhmm or +hh:mm
IsZone(z) ==
    \/ z = << "Z" >>
    \/ /\ Len(z) = 5
       /\ z[1] \in {"+", "-"}
       /\ IsDigit(SubSeq(z, 2, 5))
    \/ /\ Len(z) = 6
       /\ z[1] \in {"+", "-"}
       /\ IsDigit(SubSeq(z, 2, 3)) /\ z[4] = ":" /\ IsDigit(SubSeq(z, 5, 6))

\* %H:%M:%S%z
IsClock(c) ==
    LET c1 == FirstIndex(c, ":", 1)
        c2 == IF c1 = 0 THEN 0 ELSE FirstIndex(c, ":", c1 + 1)
    IN  /\ c2 # 0
        /\ IsField(SubSeq(c, 1, c1 - 1), 0, 23)
        /\ IsField(SubSeq(c, c1 + 1, c2 - 1), 0, 59)
        /\ Len(c) >= c2 + 2
        /\ IsField(SubSeq(c, c2 + 1, c2 + 2), 0, 61)
        /\ IsZone(SubSeq(c, c2 + 3, Len(c)))

NotATime == [ok |-> FALSE, year |-> 0, month |-> 0, day |-> 0]

\* datetime.strptime(t, '%Y-%m-%dT%H:%M:%S%z'): the date, or a ValueError
Strptime(t) ==
    LET d1 == FirstIndex(t, "-", 1)
        d2 == IF d1 = 0 THEN 0 ELSE FirstIndex(t, "-", d1 + 1)
        tt == IF d2 = 0 THEN 0 ELSE FirstIndex(t, "T", d2 + 1)
        year == SubSeq(t, 1, d1 - 1)
        month == SubSeq(t, d1 + 1, d2 - 1)
        day == SubSeq(t, d2 + 1, tt - 1)
    IN  IF /\ tt # 0
           /\ Len(year) = 4 /\ IsDigit(year)
           /\ IsField(month, 1, 12)
           /\ IsField(day, 1, 31)
           /\ IsClock(SubSeq(t, tt + 1, Len(t)))
          THEN [ok |-> TRUE, year |-> IntOf(year), month |-> IntOf(month),
                day |-> IntOf(day)]
          ELSE NotATime

\* a text of digits filled up with zeros to w characters
RECURSIVE ZeroFill(_, _)
ZeroFill(t, w) == IF Len(t) >= w THEN t ELSE ZeroFill(<< "0" >> \o t, w)

\* dt.strftime('%Y-%m-%d')
Strftime(dt) ==
    ZeroFill(Decimal(dt.year), 4) \o << "-" >> \o ZeroFill(Decimal(dt.month), 2)
        \o << "-" >> \o ZeroFill(Decimal(dt.day), 2)

\* ------------------------------------------------------ the two file names
\* the downloader's sanitize_filename
NewsletterSanitize(t) ==
    LET removed == SelectSeq(t, LAMBDA ch : ch \notin Forbidden)
        replaced == [j \in 1..Len(removed) |->
                        IF removed[j] = " " THEN "_" ELSE removed[j]]
    IN  IF Len(replaced) > MaxNameLen THEN SubSeq(replaced, 1, MaxNameLen)
        ELSE replaced

\* campaign.get('settings', {}).get('subject_line', 'No Subject')
SubjectOf(c) == IF c.has_subject THEN c.subject_line ELSE NoSubject

\* create_markdown_file: date_str
MarkdownDate(send_time) ==
    IF send_time # << >>
       THEN IF Strptime(send_time).ok
               THEN Strftime(Strptime(send_time))
               ELSE IF Len(send_time) >= DatePrefix
                       THEN SubSeq(send_time, 1, DatePrefix)
                       ELSE Unknown
       ELSE Unknown

\* create_markdown_file: f"{date_str}_{self.sanitize_filename(subject)}.md"
MarkdownFileName(c) ==
    MarkdownDate(c.send_time) \o << "_" >> \o NewsletterSanitize(SubjectOf(c))
        \o Extension

\* mutant of LocalDate: a send_time that does not parse gives 'unknown'
LocalDateNoPrefix(send_time) ==
    IF send_time # << >> /\ Strptime(send_time).ok
       THEN Strftime(Strptime(send_time))
       ELSE Unknown

\* find_local_file: date_str
LocalDate(send_time) ==
    IF send_time # << >>
       THEN IF Strptime(send_time).ok
               THEN Strftime(Strptime(send_time))
               ELSE IF Len(send_time) >= DatePrefix
                       THEN SubSeq(send_time, 1, DatePrefix)
                       ELSE Unknown
       ELSE Unknown

\* find_local_file: f"{date_str}_{self.sanitize_filename(subject)}.md"
LocalFileName(c) ==
    LocalDate(c.send_time) \o << "_" >> \o sanitize_filename(SubjectOf(c))
        \o Extension

\* the newsletters directory, and a file of it by its absolute path
DirectoryPath == << "/", "D", "/" >>

AbsolutePath(file_name) == DirectoryPath \o file_name

\* open(filepath, 'w') and f.write(md_content): the file of that name now
\* holds the campaign
WriteFile(dir, file_name, id) ==
    { f \in dir : f.name # file_name } \cup { [name |-> file_name, id |-> id] }

\* filepath.exists()
Exists(dir, file_name) == \E f \in dir : f.name = file_name

\* ------------------------------------------------- download_all_newsletters
InitDownload ==
    /\ NoGenerate
    /\ remote \in NewsletterSets
    /\ count = MaxCount
    /\ offset = 0
    /\ campaigns = << >>
    /\ i = 0
    /\ pc = "dl_listing"
    /\ NoDownload

\* The downloader's get_all_campaigns: a page request answered with status 200
DownloadPage200 ==
    /\ pc = "dl_listing"
    /\ LET batch == Page(offset) IN
          IF batch = << >>
             THEN campaigns' = campaigns /\ offset' = offset /\ pc' = "dl_listed"
             ELSE /\ campaigns' = Extend(campaigns, batch)
                  /\ IF Len(batch) < count
                        THEN offset' = offset /\ pc' = "dl_listed"
                        ELSE offset' = NextOffset(offset) /\ pc' = "dl_listing"
    /\ UNCHANGED << downloaderVars, remote, count, save_interval, pageRequests,
                    listTimeouts, i, list_cache, audience, csv_data, file, call,
                    listRequests, listLookups, saving, flushes, listEnd >>

\* a page request answered with another status: break
DownloadPageStatus ==
    /\ pc = "dl_listing"
    /\ pc' = "dl_listed"
    /\ UNCHANGED << downloaderVars, remote, count, save_interval, offset, campaigns,
                    pageRequests, listTimeouts, i, list_cache, audience, csv_data,
                    file, call, listRequests, listLookups, saving, flushes, listEnd >>

\* "if not campaigns: return", else the loop starts
DownloadStart ==
    /\ pc = "dl_listed"
    /\ IF campaigns = << >>
          THEN i' = i /\ pc' = "dl_done"
          ELSE i' = 1 /\ pc' = "dl_item"
    /\ UNCHANGED << downloaderVars, remote, count, save_interval, offset, campaigns,
                    pageRequests, listTimeouts, list_cache, audience, csv_data,
                    file, call, listRequests, listLookups, saving, flushes, listEnd >>

\* the for loop goes on to the next campaign or ends
DownloadNext ==
    IF i < Len(campaigns)
       THEN i' = i + 1 /\ pc' = "dl_item"
       ELSE i' = i /\ pc' = "dl_done"

\* the content was fetched and create_markdown_file wrote the file
DownloadSaved ==
    /\ pc = "dl_item"
    /\ directory' = WriteFile(directory, MarkdownFileName(campaigns[i]), campaigns[i].id)
    /\ saved' = saved \cup {campaigns[i].id}
    /\ successful' = successful + 1
    /\ DownloadNext
    /\ UNCHANGED << remote, count, save_interval, offset, campaigns, pageRequests,
                    listTimeouts, list_cache, audience, csv_data, file, call,
                    listRequests, listLookups, saving, flushes, listEnd,
                    raw_name, safe_name, applied, failed, found >>

\* the content or the file did not come about
DownloadFailed ==
    /\ failed' = failed + 1
    /\ DownloadNext
    /\ UNCHANGED << remote, count, save_interval, offset, campaigns, pageRequests,
                    listTimeouts, list_cache, audience, csv_data, file, call,
                    listRequests, listLookups, saving, flushes, listEnd,
                    raw_name, safe_name, applied, directory, successful, saved,
                    found >>

\* get_campaign_content returned None: "Skipped (no content)"
DownloadNoContent == pc = "dl_item" /\ DownloadFailed

\* create_markdown_file raised: "Error creating file"
DownloadWriteFails == pc = "dl_item" /\ DownloadFailed

\* The generator's find_local_file for one of the campaigns, on the directory
\* the downloader has filled.
FindLocalFile ==
    /\ pc = "dl_done"
    /\ \E j \in 1..Len(campaigns) :
          LET file_name == LocalFileName(campaigns[j]) IN
          found' = [id |-> campaigns[j].id,
                    path |-> IF Exists(directory, file_name)
                                THEN AbsolutePath(file_name)
                                ELSE FileNotFound]
    /\ UNCHANGED << remote, count, save_interval, pc, offset, campaigns,
                    pageRequests, listTimeouts, i, list_cache, audience, csv_data,
                    file, call, listRequests, listLookups, saving, flushes, listEnd,
                    raw_name, safe_name, applied, directory, successful, failed,
                    saved >>

NextDownload ==
    \/ DownloadPage200 \/ DownloadPageStatus \/ DownloadStart
    \/ DownloadSaved \/ DownloadNoContent \/ DownloadWriteFails
    \/ FindLocalFile

SpecDownload == InitDownload /\ [][NextDownload]_vars

\* ======================================================================
\* Properties
\* ======================================================================

\* row j of data is the row of campaign j of camps
RowsInFetchOrder(data, camps) ==
    /\ Len(data) <= Len(camps)
    /\ \A j \in 1..Len(data) : data[j].CampaignID = camps[j].id

\* The number of campaigns whose loop iteration, checkpoint included, has
\* ended, in the positions where no save_progress is under way.
Processed ==
    IF pc \in {"item", "list_name", "report", "appended"} THEN i - 1
    ELSE IF pc = "save_open" /\ saving = "checkpoint" THEN i - 1
    ELSE IF pc = "save_open" /\ saving = "final" THEN i
    ELSE 0

\* C1: with save_interval N >= 1, once the i-th campaign has been processed
\* and i mod N = 0, the output file holds the header and exactly the rows of
\* the first i campaigns, in fetch order.
C1_CheckpointFileHoldsFirstRows ==
    (Processed >= 1 /\ Processed % save_interval = 0)
        => /\ file.header
           /\ Len(file.rows) = Processed
           /\ file.rows = SubSeq(csv_data, 1, Processed)
           /\ RowsInFetchOrder(file.rows, campaigns)

\* the second campaign has been processed with save_interval 2 and the file
\* holds two rows
C1_Witness ==
    /\ pc = "save_open" /\ saving = "final"
    /\ save_interval = 2 /\ i = 2
    /\ Len(file.rows) = 2

\* the rows accumulated in csv_data that are not in the output file
MissingRows ==
    Cardinality({ j \in 1..Len(csv_data) :
                    \A m \in 1..Len(file.rows) : file.rows[m] # csv_data[j] })

\* C2: a run interrupted at any point of the enrichment loop has at most
\* save_interval - 1 accumulated rows missing from the output file.
C2_InterruptLosesLessThanInterval ==
    (pc = "interrupted" /\ i >= 1) => MissingRows <= save_interval - 1

Ceil(a, b) == (a + b - 1) \div b

\* get_all_campaigns returned and no request failed or timed out
ListedWithoutFailure ==
    pc = "listed" /\ listEnd = "exhausted" /\ listTimeouts = 0

\* C3 as stated: with no request failing, get_all_campaigns returns exactly
\* the k remote campaigns and issues exactly ceil(k / count) page requests.
C3_CeilPageRequests ==
    ListedWithoutFailure
        => /\ campaigns = remote
           /\ pageRequests = Ceil(Len(remote), count)

\* C3 amended: with no request failing, get_all_campaigns returns exactly the
\* k remote campaigns and issues floor(k / count) + 1 page requests: that is
\* ceil(k / count) when k is not a multiple of count and one more, for a last
\* empty page, when it is (k = 0 included).
C3_FloorPlusOnePageRequests ==
    ListedWithoutFailure
        => /\ campaigns = remote
           /\ pageRequests = (Len(remote) \div count) + 1
           /\ (Len(remote) % count # 0 => pageRequests = Ceil(Len(remote), count))
           /\ (Len(remote) % count = 0 => pageRequests = Ceil(Len(remote), count) + 1)

\* two campaigns fetched in pages of one: three requests
C3_Witness ==
    /\ ListedWithoutFailure
    /\ Len(remote) = 2 /\ count = 1
    /\ pageRequests = 3

\* C4 as stated: for every list id, resolving the audience name makes at
\* most one network call in the run.
C4_OneNetworkCallPerList ==
    \A l \in ListIds : listRequests[l] <= 1

\* C4 amended: for every list id, get_list_name is called at most once in the
\* run, however the call ends, and that one call makes at most 3 requests
\* (one more after each timeout); so a list id costs at most 3 requests.
C4_OneLookupPerList ==
    \A l \in ListIds :
        /\ listLookups[l] <= 1
        /\ listRequests[l] <= Attempts
        /\ (listLookups[l] = 0 => listRequests[l] = 0)

\* two campaigns of one list, whose only lookup made three requests
C4_Witness ==
    /\ pc = "done" /\ Len(campaigns) = 2
    /\ campaigns[1].list_id = campaigns[2].list_id
    /\ campaigns[1].list_id \in ListIds
    /\ listRequests[campaigns[1].list_id] = 3
    /\ listLookups[campaigns[1].list_id] = 1

\* C5: a listing request that times out leaves offset and campaigns as they
\* were and is followed by a request for the same offset; no page is skipped
\* and none is appended twice, however many timeouts there are.
C5_TimeoutRetriesSamePage ==
    /\ [][listTimeouts' = listTimeouts + 1
            => (offset' = offset /\ campaigns' = campaigns /\ pc' = "listing")]_vars
    /\ [](/\ campaigns = SubSeq(remote, 1, Len(campaigns))
          /\ (pc = "listing" => offset = Len(campaigns)))

\* two timeouts, and both campaigns fetched in pages of one
C5_Witness ==
    /\ pc = "listed" /\ listEnd = "exhausted"
    /\ listTimeouts = 2
    /\ count = 1 /\ Len(remote) = 2
    /\ campaigns = remote

\* C6: a non-200 status or a non-timeout exception on a page ends the loop
\* with that request, and get_all_campaigns returns exactly the campaigns of
\* the pages fetched before it.
C6_FailureReturnsPagesSoFar ==
    (pc = "listed" /\ listEnd = "failed")
        => LET pages == pageRequests - listTimeouts - 1 IN
           /\ pages >= 0
           /\ Len(campaigns) = pages * count
           /\ campaigns = SubSeq(remote, 1, pages * count)

\* the second page failed after a first page of one campaign
C6_Witness ==
    /\ pc = "listed" /\ listEnd = "failed"
    /\ Len(campaigns) = 1 /\ Len(remote) = 2

AllTimeouts(outcomes) == \A j \in 1..Len(outcomes) : outcomes[j] = "timeout"

C8_EveryCampaignGetsOneRow ==
    /\ RowsInFetchOrder(csv_data, campaigns)
    /\ (pc \in {"item", "list_name", "report"} => Len(csv_data) = i - 1)
    /\ (pc \in {"appended", "save_open", "save_header", "save_rows"}
            => Len(csv_data) = i)
    /\ (pc = "done" /\ campaigns # << >> => Len(csv_data) = Len(campaigns))
    /\ (pc \in {"item", "list_name", "report", "appended"} => ENABLED ProgramNext)

\* a finished run whose first campaign had both calls fail
C8_Witness ==
    /\ pc = "done" /\ Len(csv_data) = 2
    /\ campaigns[1].list_id \in ListIds
    /\ csv_data[1].Audience = "Unknown"
    /\ csv_data[1].EmailsSent = 0
    /\ csv_data[2].EmailsSent > 0

\* Reading a cell of the file back as a number
DigitValue(ch) == CHOOSE d \in 0..9 : DigitChar(d) = ch

RECURSIVE Number(_)
Number(text) ==
    IF text = << >> THEN 0
    ELSE 10 * Number(SubSeq(text, 1, Len(text) - 1)) + DigitValue(text[Len(text)])

\* the value, in hundredths, of a text with two decimals
RateValue(text) ==
    LET dot == CHOOSE j \in 1..Len(text) : text[j] = "." IN
    100 * Number(SubSeq(text, 1, dot - 1)) + Number(SubSeq(text, dot + 1, Len(text)))

\* the row just appended was built without a report
RowWithoutReport ==
    /\ pc = "appended"
    /\ call.kind = "report" /\ call.ended
    /\ call.outcomes[Len(call.outcomes)] # "200"

\* C9: when the report fetch yields no report (not found, another status,
\* an exception, three timeouts), every metric field of the campaign's row
\* is 0 and the other fields are those the row would have with a report.
C9_NoReportRowIsZero ==
    RowWithoutReport
        => LET row == csv_data[Len(csv_data)]
               with == MakeRow(ThisCampaign, audience, RemoteReport(ThisCampaign.id))
           IN  /\ row.EmailsSent = 0
               /\ row.UniqueOpens = 0
               /\ RateValue(row.OpenRate) = 0
               /\ row.UniqueClicks = 0
               /\ RateValue(row.ClickRate) = 0
               /\ row.HardBounces = 0
               /\ row.SoftBounces = 0
               /\ row.Unsubscribes = 0
               /\ row.CampaignID = with.CampaignID
               /\ row.Audience = with.Audience

\* the second campaign's report was not found, the first had one
C9_Witness ==
    /\ RowWithoutReport
    /\ call.outcomes = << "404" >>
    /\ i = 2
    /\ csv_data[1].EmailsSent > 0

\* C10 as stated: every run that is not aborted ends with the file holding
\* the full accumulated row set, whatever the number of campaigns fetched.
C10_EveryRunEndsWithFlush ==
    pc = "done"
        => /\ flushes >= 1
           /\ file = [header |-> TRUE, rows |-> csv_data]

\* C10 amended: every run that is not aborted and fetched at least one
\* campaign ends with a flush that overwrites the file with the full row
\* set, whether or not the number of campaigns is a multiple of
\* save_interval; a run that fetched no campaign returns without writing and
\* leaves the file of an earlier run as it was.
C10_FinalFlushUnlessNoCampaigns ==
    pc = "done"
        => IF campaigns = << >>
              THEN flushes = 0 /\ file = OldFile
              ELSE /\ file = [header |-> TRUE, rows |-> csv_data]
                   /\ Len(csv_data) = Len(campaigns)
                   /\ flushes = (Len(campaigns) \div save_interval) + 1

\* two campaigns with save_interval 2: a checkpoint and then the final save
C10_Witness ==
    /\ pc = "done"
    /\ Len(campaigns) = 2 /\ save_interval = 2
    /\ flushes = 2

\* ---------------------------------------------------------------------
\* C11: a run that is aborted leaves a complete checkpoint on disk: the
\* file holds the header and exactly the rows of the most recent checkpoint
\* flush (the file from before the run, when no flush has been made yet),
\* never an empty or partly written one.
Aborted == pc \in {"interrupted", "error"}

C11_AbortLeavesCompleteCheckpoint ==
    Aborted =>
        IF flushes = 0
          THEN file = OldFile
          ELSE file = [header |-> TRUE,
                       rows |-> SubSeq(csv_data, 1, flushes * save_interval)]

\* ---------------------------------------------------------------------
\* C12: in every state of a run the Campaign ID values of the accumulated
\* rows are pairwise distinct, and so are those of the rows in the file
\* (get_all_campaigns fetches every page once and the loop appends one row
\* per fetched campaign; the remote campaigns have distinct ids).
DistinctIds(rows) ==
    \A j, m \in 1..Len(rows) : j # m => rows[j].CampaignID # rows[m].CampaignID

Phase ==
    CASE pc \in {"listing", "listed"} -> "FETCHING_LIST"
      [] pc \in {"item", "list_name", "report", "appended"} -> "ENRICHING"
      [] pc \in {"save_open", "save_header", "save_rows"} ->
            IF saving = "final" THEN "FINAL_FLUSH" ELSE "FLUSH"
      [] pc \in {"done", "interrupted", "error"} -> "DONE"

\* The same in the next state.
PhaseNext ==
    CASE pc' \in {"listing", "listed"} -> "FETCHING_LIST"
      [] pc' \in {"item", "list_name", "report", "appended"} -> "ENRICHING"
      [] pc' \in {"save_open", "save_header", "save_rows"} ->
            IF saving' = "final" THEN "FINAL_FLUSH" ELSE "FLUSH"
      [] pc' \in {"done", "interrupted", "error"} -> "DONE"

\* The step leaves generate_csv by an interrupt or an exception.
Aborts == Phase # "DONE" /\ pc' \in {"interrupted", "error"}

\* A FLUSH happens only directly after an item whose index is a multiple of
\* the interval; no item is enriched before the listing has returned.
PhaseConditions ==
    /\ Phase = "FLUSH" => save_interval > 0 /\ i % save_interval = 0 /\ Len(csv_data) = i
    /\ Phase = "FINAL_FLUSH" => i = Len(campaigns) /\ Len(csv_data) = i
    /\ Phase = "ENRICHING" => listEnd = "returned" /\ i \in 1..Len(campaigns)
    /\ Phase = "FETCHING_LIST" => i = 0 /\ csv_data = << >> /\ flushes = 0

\* The steps between phases, aborts aside.
PhaseOrder ==
    CASE Phase = "FETCHING_LIST" ->
            \/ PhaseNext = "FETCHING_LIST"
            \/ PhaseNext = "ENRICHING" /\ i' = 1
            \/ PhaseNext = "DONE" /\ campaigns' = << >>
      [] Phase = "ENRICHING" ->
            \/ PhaseNext = "ENRICHING" /\ i' = i
            \/ PhaseNext = "ENRICHING" /\ i' = i + 1
                    /\ save_interval > 0 /\ i % save_interval # 0
            \/ PhaseNext = "FLUSH" /\ i' = i
            \/ PhaseNext = "FINAL_FLUSH" /\ i' = i
                    /\ save_interval > 0 /\ i % save_interval # 0
      [] Phase = "FLUSH" ->
            \/ PhaseNext = "FLUSH" /\ i' = i
            \/ PhaseNext = "ENRICHING" /\ i' = i + 1
            \/ PhaseNext = "FINAL_FLUSH" /\ i' = i
      [] Phase = "FINAL_FLUSH" ->
            \/ PhaseNext = "FINAL_FLUSH" /\ i' = i
            \/ PhaseNext = "DONE" /\ pc' = "done"
      [] Phase = "DONE" -> FALSE

\* C13 as stated: START, FETCHING_LIST, then DONE (no items) or ENRICHING[1..k]
\* in index order with a FLUSH only directly after an item whose index is a
\* multiple of the interval, then FINAL_FLUSH, then DONE; nothing is
\* enriched before the listing has ended, nothing happens after DONE, and
\* a run that ends by an error has made at least one flush before.
C13_ErrorOnlyAfterFlush ==
    [][ /\ PhaseOrder \/ Aborts
        /\ PhaseConditions'
        /\ (Aborts => flushes >= 1) ]_vars

\* C13, amended: the same phase order, where an abort (an interrupt or an
\* exception caught in main) may end the run from any phase before DONE,
\* also before any flush has been made.
C13_PhaseOrder ==
    [][ /\ PhaseOrder \/ Aborts
        /\ PhaseConditions' ]_vars

\* a run with one campaign that made a checkpoint flush and the final flush
C13_Witness ==
    /\ pc = "done"
    /\ save_interval = 1
    /\ Len(csv_data) = 1
    /\ flushes = 2

\* ---------------------------------------------------------------------
\* C16: termination of a run that is not interrupted.
\* A measure of the work a run has left: the pages to list, then the
\* campaigns to enrich, the attempts a call has left, the rows a flush has
\* still to write.
RowsBound == Len(campaigns) + 2

AttemptsLeft(kind) == Attempts - 1 - Len(CurrentCall(kind).outcomes)

SaveRank ==
    CASE pc = "save_open" -> RowsBound + 3
      [] pc = "save_header" -> RowsBound + 2
      [] pc = "save_rows" -> 1 + Len(csv_data) - Len(file.rows)

ItemRank ==
    CASE pc = "item" -> RowsBound + 11
      [] pc = "list_name" -> RowsBound + 8 + AttemptsLeft("list")
      [] pc = "report" -> RowsBound + 5 + AttemptsLeft("report")
      [] pc = "appended" -> RowsBound + 4
      [] OTHER -> SaveRank

ListingRank == (MaxCampaigns + 20) * (MaxCampaigns + 20)

Rank ==
    CASE pc = "listing" -> ListingRank + 2 + Len(remote) - Len(campaigns)
      [] pc = "listed" -> ListingRank + 1
      [] Phase \in {"ENRICHING", "FLUSH"} ->
            (RowsBound + 4) + (Len(campaigns) - i) * (RowsBound + 12) + ItemRank
      [] Phase = "FINAL_FLUSH" -> SaveRank
      [] Phase = "DONE" -> 0

\* the listing request of a page is repeated after a timeout
ListingRetry ==
    pc = "listing" /\ pc' = "listing" /\ listTimeouts' = listTimeouts + 1

\* C16: when no listing request times out forever and the remote campaign set
\* is finite, every run that is not interrupted reaches DONE: every report
\* and audience fetch ends after at most 3 attempts, the loop goes through
\* the campaigns once in order, and every step other than a repeated listing
\* request after a timeout brings the run nearer to its end.
C16_UninterruptedRunReachesDone ==
    /\ <>(Phase = "DONE")
    /\ [](Len(call.outcomes) <= Attempts)
    /\ [][i' \in {i, i + 1}]_vars
    /\ [][ListingRetry \/ (Rank' < Rank /\ Rank' >= 0)]_vars

\* a finished run of two campaigns that made three flushes
C16_Witness ==
    /\ pc = "done"
    /\ flushes = 3
    /\ Len(csv_data) = 2

\* ---------------------------------------------------------------------
\* C17: every save interval that main accepts from the prompt is a positive
\* integer, so the checkpoint test "i % save_interval" never fails: the run
\* never ends in main's "except Exception" because of it, and a run that
\* got past the first campaign has a positive interval.
C17_AcceptedIntervalIsPositive ==
    /\ pc \in {"save_open", "save_header", "save_rows", "done"} /\ campaigns # << >>
            => save_interval >= 1
    /\ pc = "error" => save_interval >= 1

\* ---------------------------------------------------------------------
\* C18: the audience cache only grows and an entry never changes; an entry
\* is what get_list_name returned first for the list id ("Unknown" after a
\* failed lookup), without the " (Segmented)" suffix; every row of a
\* campaign with a list id carries that entry, with the suffix exactly when
\* the campaign is segmented; no list id is looked up twice.
CacheKept ==
    \A l \in DOMAIN list_cache :
        l \in DOMAIN list_cache' /\ list_cache'[l] = list_cache[l]

RowsFollowCache ==
    \A j \in 1..Len(csv_data) :
        LET c == campaigns[j] IN
        c.list_id # NoList =>
            /\ c.list_id \in DOMAIN list_cache
            /\ csv_data[j].Audience = WithSegment(list_cache[c.list_id], c)

C18_CacheOnlyGrows ==
    /\ [][CacheKept]_vars
    /\ [](\A l \in DOMAIN list_cache : list_cache[l] \in {RemoteListName(l), "Unknown"})
    /\ []RowsFollowCache
    /\ [](\A l \in ListIds : listLookups[l] <= 1)

\* the lookup failed for a segmented campaign, and a later unsegmented
\* campaign of the same list got the cached "Unknown" without the suffix
C18_Witness ==
    /\ Len(csv_data) = 2
    /\ campaigns[1].list_id = campaigns[2].list_id
    /\ campaigns[1].segmented /\ ~campaigns[2].segmented
    /\ csv_data[1].Audience = "Unknown (Segmented)"
    /\ csv_data[2].Audience = "Unknown"

\* ---------------------------------------------------------------------
\* C14: sanitize_filename
\* the text with the forbidden characters deleted and each space replaced by
\* "_", character by character
RECURSIVE Cleaned(_)
Cleaned(t) ==
    IF t = << >> THEN << >>
    ELSE LET ch == Head(t) IN
         (IF ch \in Forbidden THEN << >>
          ELSE IF ch = " " THEN << "_" >> ELSE << ch >>) \o Cleaned(Tail(t))

FirstChars(t, n) == SubSeq(t, 1, Min(n, Len(t)))

\* C14: for every text, sanitize_filename returns a text without any of
\* < > : " / \ | ? * and without a space, of at most 200 characters (here
\* MaxNameLen), equal to the input with those characters deleted and each
\* space replaced by "_", cut to its first 200 characters; applied to its
\* own result it returns the same text again.
C14_SanitizeFilename ==
    applied >= 1 =>
        /\ \A j \in 1..Len(safe_name) : safe_name[j] \notin Forbidden \cup {" "}
        /\ Len(safe_name) <= MaxNameLen
        /\ safe_name = FirstChars(Cleaned(raw_name), MaxNameLen)

\* a text that loses characters, has a space replaced and is cut, after the
\* second application
C14_Witness ==
    /\ applied = 2
    /\ Len(raw_name) = MaxTextLen
    /\ Len(safe_name) = MaxNameLen
    /\ \E j \in 1..Len(raw_name) : raw_name[j] \in Forbidden
    /\ \E j \in 1..Len(raw_name) : raw_name[j] = " "
    /\ \E j \in 1..Len(safe_name) : safe_name[j] = "_"

\* ---------------------------------------------------------------------
\* C15: after download_all_newsletters there is one Markdown file per
\* campaign that was saved: the campaigns saved are in distinct files, the
\* number of files in the directory is the number reported as successful,
\* and every saved campaign's file still holds that campaign.
C15_OneFilePerSavedCampaign ==
    pc = "dl_done" =>
        /\ Cardinality(directory) = successful
        /\ \A id \in saved : \E f \in directory : f.id = id
        /\ \A j, m \in 1..Len(campaigns) :
              j # m /\ campaigns[j].id \in saved /\ campaigns[m].id \in saved
                  => MarkdownFileName(campaigns[j]) # MarkdownFileName(campaigns[m])

\* ---------------------------------------------------------------------
\* C19: for every campaign, whatever its send time and subject, the name
\* under which create_markdown_file writes it is the name find_local_file
\* looks up; so for a campaign the downloader has saved into the directory
\* find_local_file returns the absolute path of its file, never
\* "File not found".
C19_SameFileName ==
    /\ \A j \in 1..Len(remote) : MarkdownFileName(remote[j]) = LocalFileName(remote[j])
    /\ \A j \in 1..Len(campaigns) :
          found.id = campaigns[j].id /\ found.id \in saved
              => /\ found.path = AbsolutePath(MarkdownFileName(campaigns[j]))
                 /\ found.path # FileNotFound
                 /\ Exists(directory, MarkdownFileName(campaigns[j]))

\* find_local_file found the file of a saved campaign whose send time does
\* not parse and whose subject loses a character
C19_Witness ==
    /\ pc = "dl_done"
    /\ found.id \in saved
    /\ found.path # FileNotFound
    /\ \E j \in 1..Len(campaigns) :
          /\ campaigns[j].id = found.id
          /\ campaigns[j].send_time = PlainTime
          /\ campaigns[j].has_subject
          /\ \E k \in 1..Len(campaigns[j].subject_line) :
                campaigns[j].subject_line[k] \in Forbidden

====
